---- MODULE Spec2Model ----
(***************************************************************************)
(* Presentation Exchange matching core of pkg/doc/presexch/definition.go.  *)
(*                                                                         *)
(* A presentation definition and a list of credential objects are drawn   *)
(* in Init.  Each action is one public entry point (CreateVP,              *)
(* MatchSubmissionRequirement) run to completion on the same definition    *)
(* and the same credential objects.                                        *)
(*                                                                         *)
(* Go pointers are modelled by a heap: a sequence of credential records,   *)
(* the caller's credentials first, objects allocated during a call after   *)
(* them.  Lists and maps of *verifiable.Credential hold heap indices.      *)
(* Strings that the code takes apart (credential ids) are sequences of     *)
(* tokens; errors are strings, "" is nil.                                  *)
(***************************************************************************)
EXTENDS Integers, Sequences, FiniteSets, TLC

\* Bounds of the model.
MaxCreds == 2
MaxCalls == 2

\* Program constants.
All == "all"
Pick == "pick"
Required == "required"
Preferred == "preferred"
tmpEnding == "tmp_unique_id_"
FormatJWT == "jwt"
FormatJWTVC == "jwt_vc"
FormatJWTVP == "jwt_vp"
FormatLDP == "ldp"
FormatLDPVC == "ldp_vc"
FormatLDPVP == "ldp_vp"
errPathNotApplicable == "path not applicable"
ErrNoCredentials == "credentials do not satisfy requirements"
errNoDescriptors == "no descriptors for from"

\* A nil *Preference.  Pointers to structs (Constraints, Filter, Format,
\* JwtType, LdpType) and nil-able slices (Schema) are records with an IsNil field.
Nil == "nil"

\* The empty string as a compact JWT (a JWT is a sequence of tokens).
NoJWT == <<>>

VARIABLES
    pd,        \* the PresentationDefinition the calls are made on
    creds,     \* the caller's credential objects (heap cells 1..Len(creds))
    calls,     \* number of calls made so far
    vp,        \* outcome of the last CreateVP
    matched,   \* outcome of the last MatchSubmissionRequirement
    evals,     \* what applyRequirement returned at each node in the last CreateVP
    ret        \* what the last call of one of the filters on its own returned

vars == <<pd, creds, calls, vp, matched, evals, ret>>

----------------------------------------------------------------------------
(* Generic helpers.                                                        *)

Range(s) == {s[i] : i \in DOMAIN s}

EmptyMap == [k \in {} |-> <<>>]

Put(m, k, v) == [x \in (DOMAIN m) \cup {k} |-> IF x = k THEN v ELSE m[x]]

RECURSIVE Concat(_)
Concat(ss) == IF ss = <<>> THEN <<>> ELSE Head(ss) \o Concat(Tail(ss))

\* strings.Index over a tokenised string: first position of tok, 0 if absent.
IndexOf(s, tok) ==
    IF \E i \in DOMAIN s : s[i] = tok
    THEN CHOOSE i \in DOMAIN s : s[i] = tok /\ \A j \in 1..(i - 1) : s[j] # tok
    ELSE 0

\* Go's < on the strings used as descriptor ids.
StrOrder == <<"w", "x", "y", "z">>
StrLess(a, b) == IndexOf(StrOrder, a) < IndexOf(StrOrder, b)

----------------------------------------------------------------------------
(* Small functions of definition.go.                                       *)

isRequired(v) == v # Nil /\ v = Required

\* isLenApplicable without the test of max.
isLenApplicable_nomax(r, val) ==
    IF r.Count > 0 /\ val # r.Count THEN FALSE
    ELSE IF r.Min > 0 /\ r.Min > val THEN FALSE
    ELSE TRUE

isLenApplicable(r, val) ==
    IF r.Count > 0 /\ val # r.Count THEN FALSE
    ELSE IF r.Min > 0 /\ r.Min > val THEN FALSE
    ELSE IF r.Max > 0 /\ r.Max < val THEN FALSE
    ELSE TRUE

contains(data, e) == \E i \in DOMAIN data : data[i] = e

\* uuid.New().String() for the n-th uuid drawn in a call.
uuidString(n) ==
    <<"uuid-01", "uuid-02", "uuid-03", "uuid-04", "uuid-05", "uuid-06", "uuid-07", "uuid-08",
      "uuid-09", "uuid-10", "uuid-11", "uuid-12", "uuid-13", "uuid-14", "uuid-15", "uuid-16",
      "uuid-17", "uuid-18", "uuid-19", "uuid-20", "uuid-21", "uuid-22", "uuid-23", "uuid-24">>[n]

tmpID(id, uuid) == id \o <<tmpEnding, uuidString(uuid)>>

\* trimTmpID that leaves the marker in place.
trimTmpID_keep(id) == id

trimTmpID(id) ==
    LET idx == IndexOf(id, tmpEnding)
    IN  IF idx = 0 THEN id ELSE SubSeq(id, 1, idx - 1)

subjectIsIssuer(credential) ==
    \E i \in DOMAIN credential.SubjectIDs :
        credential.SubjectIDs[i] # "" /\ credential.SubjectIDs[i] = credential.IssuerID

hasProofWithType(vc, proofType) == \E i \in DOMAIN vc.Proofs : vc.Proofs[i] = proofType

\* hasBBS that finds the proof on no credential.
hasBBS_never(vc) == FALSE

hasBBS(vc) == hasProofWithType(vc, "BbsBlsSignature2020")

----------------------------------------------------------------------------
(* Requirement tree builder.                                               *)

\* The nil *requirement returned next to an error.
NoRequirement ==
    [Rule |-> "", Count |-> 0, Min |-> 0, Max |-> 0, InputDescriptors |-> <<>>, Nested |-> <<>>]

descriptorsFrom(descriptors, from) ==
    SelectSeq(descriptors, LAMBDA d : contains(d.Group, from))

RECURSIVE toRequirement(_, _)
toRequirement(sr, descriptors) ==
    LET inputDescriptors == IF sr.From # "" THEN descriptorsFrom(descriptors, sr.From) ELSE <<>>
        kids == [i \in DOMAIN sr.FromNested |-> toRequirement(sr.FromNested[i], descriptors)]
        nested == IF sr.From # "" THEN <<>> ELSE [i \in DOMAIN kids |-> kids[i].req]
        totalCount == IF sr.From # "" THEN Len(inputDescriptors) ELSE Len(nested)
        count == IF sr.Rule = All THEN totalCount ELSE sr.Count
        req == [Rule |-> sr.Rule, Count |-> count, Min |-> sr.Min, Max |-> sr.Max,
                InputDescriptors |-> inputDescriptors, Nested |-> nested]
    IN  IF sr.From # "" /\ totalCount = 0 THEN [req |-> NoRequirement, err |-> errNoDescriptors]
        ELSE IF sr.From = "" /\ \E i \in DOMAIN kids : kids[i].err # ""
        THEN [req |-> NoRequirement, err |-> errNoDescriptors]
        ELSE [req |-> req, err |-> ""]

makeRequirement(requirements, descriptors) ==
    IF Len(requirements) = 0
    THEN [req |-> [Rule |-> "", Count |-> Len(descriptors), Min |-> 0, Max |-> 0,
                   InputDescriptors |-> descriptors, Nested |-> <<>>],
          err |-> ""]
    ELSE LET rs == [i \in DOMAIN requirements |-> toRequirement(requirements[i], descriptors)]
         IN  IF \E i \in DOMAIN rs : rs[i].err # ""
             THEN [req |-> NoRequirement, err |-> errNoDescriptors]
             ELSE [req |-> [Rule |-> "", Count |-> Len(requirements), Min |-> 0, Max |-> 0,
                            InputDescriptors |-> <<>>,
                            Nested |-> [i \in DOMAIN rs |-> rs[i].req]],
                   err |-> ""]

makeRequirementsForMatch(requirements, descriptors) ==
    IF Len(requirements) = 0
    THEN [reqs |-> << [Rule |-> All, Count |-> Len(descriptors), Min |-> 0, Max |-> 0,
                       InputDescriptors |-> descriptors, Nested |-> <<>>] >>,
          err |-> ""]
    ELSE LET rs == [i \in DOMAIN requirements |-> toRequirement(requirements[i], descriptors)]
         IN  IF \E i \in DOMAIN rs : rs[i].err # ""
             THEN [reqs |-> <<>>, err |-> errNoDescriptors]
             ELSE [reqs |-> [i \in DOMAIN rs |-> rs[i].req], err |-> ""]

----------------------------------------------------------------------------
(* Field filter.  A credential marshalled to a JSON map is a function from *)
(* path names to values; jsonpath.Get fails exactly on the absent names.   *)
(* A Filter is the JSON Schema {const: v}.                                 *)

\* validatePatch that accepts every value.
validatePatch_any(filter, patch) == ""

validatePatch(filter, patch) ==
    IF filter.IsNil THEN ""
    ELSE IF patch = filter.Const THEN "" ELSE errPathNotApplicable

RECURSIVE filterFieldFrom(_, _, _, _)
filterFieldFrom(f, credential, i, lastErr) ==
    IF i > Len(f.Path) THEN lastErr
    ELSE IF f.Path[i] \in DOMAIN credential
         THEN IF validatePatch(f.Filter, credential[f.Path[i]]) = ""
              THEN ""
              ELSE filterFieldFrom(f, credential, i + 1, errPathNotApplicable)
         ELSE filterFieldFrom(f, credential, i + 1, errPathNotApplicable)

filterField(f, credential) == filterFieldFrom(f, credential, 1, "")

\* The paths of keys that evaluate in src.
getJSONPaths(keys, src) == SelectSeq(keys, LAMBDA k : k \in DOMAIN src)

----------------------------------------------------------------------------
(* Selective-disclosure reshaper.                                          *)

credentialSchema == "credentialSchema"

\* verifiable.Credential.CreateDisplayCredential(DisplayAllDisclosures()):
\* the body with every disclosure the credential holds put back in.
CreateDisplayCredential(vc) ==
    LET shown == {n \in Range(vc.SDJWTDisclosures) : n \in DOMAIN vc.sd}
    IN  [vc EXCEPT !.body = [n \in (DOMAIN vc.body) \cup shown |->
                                IF n \in shown THEN vc.sd[n] ELSE vc.body[n]]]

\* The (path, predicate) pairs createNewCredential walks, in order.
revealPairs(constraints, src) ==
    Concat([i \in DOMAIN constraints.Fields |->
        LET jPaths == getJSONPaths(constraints.Fields[i].Path, src)
        IN  [j \in DOMAIN jPaths |->
                [path |-> jPaths[j], pred |-> constraints.Fields[i].Predicate]]])

RECURSIVE setBytes(_, _, _)
setBytes(limitedCred, pairs, src) ==
    IF pairs = <<>> THEN limitedCred
    ELSE LET p == Head(pairs)
             val == IF p.pred = Nil \/ p.pred # Required THEN src[p.path] ELSE "true"
         IN  IF p.path = credentialSchema
             THEN setBytes(limitedCred, Tail(pairs), src)
             ELSE setBytes(Put(limitedCred, p.path, val), Tail(pairs), src)

\* Returns the new credential object and the uuid source after the call.
createNewCredential(constraints, src, limitedCred, credential, uuid) ==
    LET BBSSupport == hasBBS(credential)
        pairs == revealPairs(constraints, src)
        modifiedByPredicate ==
            \E i \in DOMAIN pairs : pairs[i].path # credentialSchema /\ isRequired(pairs[i].pred)
        limited == setBytes(limitedCred, pairs, src)
        limit == isRequired(constraints.LimitDisclosure)
        parsed == [credential EXCEPT !.JWT = NoJWT, !.body = limited,
                                     !.Proofs = IF limit THEN <<>> ELSE @,
                                     !.SDJWTDisclosures = <<>>, !.sd = EmptyMap]
        derived == [credential EXCEPT !.JWT = NoJWT, !.body = limited,
                                      !.Proofs = <<"BbsBlsSignatureProof2020">>]
    IN  IF ~limit \/ ~BBSSupport \/ modifiedByPredicate
        THEN [cred |-> parsed, uuid |-> uuid]
        ELSE [cred |-> derived, uuid |-> uuid + 1]

\* The disclosures named by the matched paths whose digest the body carries.
getLimitedDisclosures(constraints, displaySrc, credential) ==
    Concat([i \in DOMAIN constraints.Fields |->
        LET jPaths == getJSONPaths(constraints.Fields[i].Path, displaySrc)
        IN  Concat([j \in DOMAIN jPaths |->
                IF jPaths[j] = credentialSchema THEN <<>>
                ELSE SelectSeq(credential.SDJWTDisclosures,
                               LAMBDA dc : dc = jPaths[j] /\ dc \in DOMAIN credential.sd)])])

----------------------------------------------------------------------------
(* Constraint filter.  st = [heap, uuid] is threaded through the loop.     *)

\* The loop over the fields with applicable starting as true.
fieldsLoop_open(fields, credentialMap, i, applicable, predicate) ==
    [applicable |-> \A k \in DOMAIN fields :
                        filterField(fields[k], credentialMap) # errPathNotApplicable,
     predicate |-> \E k \in DOMAIN fields : isRequired(fields[k].Predicate)]

RECURSIVE fieldsLoop(_, _, _, _, _)
fieldsLoop(fields, credentialMap, i, applicable, predicate) ==
    IF i > Len(fields) THEN [applicable |-> applicable, predicate |-> predicate]
    ELSE IF filterField(fields[i], credentialMap) = errPathNotApplicable
         THEN [applicable |-> FALSE, predicate |-> predicate]
         ELSE fieldsLoop(fields, credentialMap, i + 1, TRUE,
                         predicate \/ isRequired(fields[i].Predicate))

\* One iteration of the loop over creds: the credential at heap cell p.
\* out is the list of cells appended to result (none or one).
filterConstraintsOne(constraints, p, st) ==
    LET credential == st.heap[p]
        isSD == credential.SDJWTHashAlg # ""
        credentialWithFieldValues ==
            IF isSD THEN CreateDisplayCredential(credential) ELSE credential
        \* credentialWithFieldValues.JWT = "" writes through to the caller's
        \* object unless a display credential was made
        cleared == IF isSD THEN st ELSE [st EXCEPT !.heap[p].JWT = NoJWT]
        credentialSrc == credentialWithFieldValues.body
        fl == fieldsLoop(constraints.Fields, credentialSrc, 1, FALSE, FALSE)
        limit == isRequired(constraints.LimitDisclosure)
        template == IF limit THEN EmptyMap ELSE credentialSrc
        made == createNewCredential(constraints, credentialSrc, template, credential, st.uuid)
        reshaped == [made.cred EXCEPT !.ID = tmpID(@, made.uuid)]
        limitedDisclosures == getLimitedDisclosures(constraints, credentialSrc, credential)
    IN  IF isRequired(constraints.SubjectIsIssuer) /\ ~subjectIsIssuer(credential)
        THEN [st |-> st, out |-> <<>>]
        ELSE IF ~credentialWithFieldValues.marshalOK
        THEN [st |-> cleared, out |-> <<>>]
        ELSE IF ~fl.applicable
        THEN [st |-> st, out |-> <<>>]
        ELSE IF (limit \/ fl.predicate) /\ ~isSD
        THEN [st |-> [heap |-> Append(st.heap, reshaped), uuid |-> made.uuid + 1],
              out |-> <<Len(st.heap) + 1>>]
        ELSE IF limit /\ isSD
        THEN [st |-> [st EXCEPT !.heap[p].SDJWTDisclosures = limitedDisclosures],
              out |-> <<p>>]
        ELSE [st |-> st, out |-> <<p>>]

RECURSIVE filterConstraintsFrom(_, _, _, _, _)
filterConstraintsFrom(constraints, creds_, i, st, result) ==
    IF i > Len(creds_) THEN [st |-> st, creds |-> result]
    ELSE LET rest(one) ==
                 filterConstraintsFrom(constraints, creds_, i + 1, one.st, result \o one.out)
         IN  rest(filterConstraintsOne(constraints, creds_[i], st))

filterConstraints(constraints, creds_, st) ==
    IF constraints.IsNil THEN [st |-> st, creds |-> creds_]
    ELSE filterConstraintsFrom(constraints, creds_, 1, st, <<>>)

----------------------------------------------------------------------------
(* Format filter.  A compact JWT is the token sequence <<header, payload,  *)
(* signature>>; "" is the empty sequence.                                  *)

\* jwt.Parse followed by Headers.Algorithm(): the header token names the alg.
jwtParse(compact) ==
    IF Len(compact) # 3 THEN [err |-> "parse", alg |-> "", hasAlg |-> FALSE]
    ELSE IF compact[1] = "{}" THEN [err |-> "", alg |-> "", hasAlg |-> FALSE]
    ELSE [err |-> "", alg |-> compact[1], hasAlg |-> TRUE]

\* Unicode case folding on the alg names in use.
fold(s) ==
    CASE s = "ES256" -> "es256"
      [] s = "EDDSA" -> "eddsa"
      [] s = "EdDSA" -> "eddsa"
      [] OTHER -> s

\* algMatch comparing the alg names byte for byte.
algMatch_exact(credAlg, jwtType) ==
    IF jwtType.IsNil THEN FALSE
    ELSE \E i \in DOMAIN jwtType.Alg : credAlg = jwtType.Alg[i]

algMatch(credAlg, jwtType) ==
    IF jwtType.IsNil THEN FALSE
    ELSE \E i \in DOMAIN jwtType.Alg : fold(credAlg) = fold(jwtType.Alg[i])

credByProof(c, ldp) ==
    IF ldp.IsNil THEN FALSE
    ELSE \E i \in DOMAIN ldp.ProofType : hasProofWithType(c, ldp.ProofType[i])

\* notNil that takes every format for absent.
notNil_never(f) == FALSE

notNil(f) ==
    ~f.IsNil /\ (~f.Jwt.IsNil \/ ~f.JwtVC.IsNil \/ ~f.JwtVP.IsNil
                 \/ ~f.Ldp.IsNil \/ ~f.LdpVC.IsNil \/ ~f.LdpVP.IsNil)

filterFormat(format, credentials, heap) ==
    LET parsed(p) == jwtParse(heap[p].JWT)
        \* the loop body reaches the jwt buckets unless jwt.Parse failed
        byAlg(p, jwtType) ==
            /\ heap[p].JWT # NoJWT
            /\ parsed(p).err = ""
            /\ parsed(p).hasAlg
            /\ algMatch(parsed(p).alg, jwtType)
        ldpCreds == SelectSeq(credentials, LAMBDA p : credByProof(heap[p], format.Ldp))
        ldpvcCreds == SelectSeq(credentials, LAMBDA p : credByProof(heap[p], format.LdpVC))
        ldpvpCreds == SelectSeq(credentials, LAMBDA p : credByProof(heap[p], format.LdpVP))
        jwtCreds == SelectSeq(credentials, LAMBDA p : byAlg(p, format.Jwt))
        jwtvcCreds == SelectSeq(credentials, LAMBDA p : byAlg(p, format.JwtVC))
        jwtvpCreds == SelectSeq(credentials, LAMBDA p : byAlg(p, format.JwtVP))
    IN  IF Len(ldpCreds) > 0 THEN [format |-> FormatLDP, creds |-> ldpCreds]
        ELSE IF Len(ldpvcCreds) > 0 THEN [format |-> FormatLDPVC, creds |-> ldpvcCreds]
        ELSE IF Len(ldpvpCreds) > 0 THEN [format |-> FormatLDPVP, creds |-> ldpvpCreds]
        ELSE IF Len(jwtCreds) > 0 THEN [format |-> FormatJWT, creds |-> jwtCreds]
        ELSE IF Len(jwtvcCreds) > 0 THEN [format |-> FormatJWTVC, creds |-> jwtvcCreds]
        ELSE IF Len(jwtvpCreds) > 0 THEN [format |-> FormatJWTVP, creds |-> jwtvpCreds]
        ELSE [format |-> "", creds |-> <<>>]

----------------------------------------------------------------------------
(* Schema gate.  A context URI is a token sequence, "#" being a token; the *)
(* document loader answers for the URI without its fragment.               *)

\* strings.SplitN(contextURI, "#", 2)[0]
stripFragment(contextURI) ==
    LET idx == IndexOf(contextURI, "#")
    IN  IF idx = 0 THEN contextURI ELSE SubSeq(contextURI, 1, idx - 1)

\* The caller's ld.DocumentLoader with the parse of what it returns: for each
\* URI either a failure or the term definitions of the context, each term
\* given by the ids typeFoundInContext collects for it.
documentLoader(uri) ==
    CASE uri = <<"https://ctx/a">> -> [err |-> "", terms |-> [t \in {"TypeA"} |-> <<"schema:A">>]]
      [] uri = <<"https://ctx/b">> -> [err |-> "", terms |-> [t \in {"TypeB"} |-> <<"schema:B", "iri:B">>]]
      [] OTHER -> [err |-> "loading document", terms |-> EmptyMap]

\* getContext that swallows the loader's failure.
getContext_ok(contextURI) ==
    [documentLoader(stripFragment(contextURI)) EXCEPT !.err = ""]

getContext(contextURI) == documentLoader(stripFragment(contextURI))

typeFoundInContext(typ, ctxObj) ==
    IF typ \in DOMAIN ctxObj.terms THEN ctxObj.terms[typ] ELSE <<>>

\* The loop over credential.Context of one credential; contexts is the cache,
\* loaded the list of loader calls made so far.
RECURSIVE schemaContexts(_, _, _, _, _)
schemaContexts(credential, i, contexts, loaded, satisfied) ==
    IF i > Len(credential.Context)
    THEN [err |-> "", contexts |-> contexts, loaded |-> loaded, satisfied |-> satisfied]
    ELSE LET ctx == credential.Context[i]
             hit == ctx \in DOMAIN contexts
             context == getContext(ctx)
             ctxObj == IF hit THEN contexts[ctx] ELSE context
             ids == UNION {Range(typeFoundInContext(credential.Types[t], ctxObj)) :
                              t \in DOMAIN credential.Types}
         IN  IF ~hit /\ context.err # ""
             THEN [err |-> context.err, contexts |-> contexts,
                   loaded |-> Append(loaded, [ctx |-> ctx, uri |-> stripFragment(ctx)]), satisfied |-> satisfied]
             ELSE schemaContexts(credential, i + 1,
                                 IF hit THEN contexts ELSE Put(contexts, ctx, context),
                                 IF hit THEN loaded ELSE Append(loaded, [ctx |-> ctx, uri |-> stripFragment(ctx)]),
                                 satisfied \cup ids)

\* The schema loop without the break on a required entry.
schemaApplicable_any(schemas, schemaSatisfied, i, applicable) ==
    \E k \in DOMAIN schemas : schemas[k].URI \in schemaSatisfied

RECURSIVE schemaApplicable(_, _, _, _)
schemaApplicable(schemas, schemaSatisfied, i, applicable) ==
    IF i > Len(schemas) THEN applicable
    ELSE IF schemas[i].URI \in schemaSatisfied
         THEN schemaApplicable(schemas, schemaSatisfied, i + 1, TRUE)
         ELSE IF schemas[i].Required THEN FALSE
         ELSE schemaApplicable(schemas, schemaSatisfied, i + 1, applicable)

RECURSIVE filterSchemaFrom(_, _, _, _, _, _, _)
filterSchemaFrom(schemas, credentials, heap, i, contexts, loaded, result) ==
    IF i > Len(credentials) THEN [creds |-> result, loaded |-> loaded]
    ELSE LET sc == schemaContexts(heap[credentials[i]], 1, contexts, loaded, {})
             applicable == schemaApplicable(schemas, sc.satisfied, 1, FALSE)
         IN  IF sc.err # "" THEN [creds |-> <<>>, loaded |-> sc.loaded]
             ELSE filterSchemaFrom(schemas, credentials, heap, i + 1, sc.contexts, sc.loaded,
                                   IF applicable THEN Append(result, credentials[i]) ELSE result)

filterSchema(schemas, credentials, heap) ==
    filterSchemaFrom(schemas, credentials, heap, 1, EmptyMap, <<>>, <<>>)

----------------------------------------------------------------------------
(* JSON-LD framing before the filters.                                     *)

\* credential.GenerateBBSSelectiveDisclosure(frame, nil): a new credential
\* with a derived proof, or an error when there is no BBS+ proof to derive from.
RECURSIVE frameCredsFrom(_, _, _, _)
frameCredsFrom(creds_, i, st, result) ==
    IF i > Len(creds_) THEN [err |-> "", st |-> st, creds |-> result]
    ELSE LET credential == st.heap[creds_[i]]
             bbsVC == [credential EXCEPT !.JWT = NoJWT,
                                         !.Proofs = <<"BbsBlsSignatureProof2020">>]
         IN  IF ~hasBBS(credential)
             THEN [err |-> "no BbsBlsSignature2020 proof present", st |-> st, creds |-> <<>>]
             ELSE frameCredsFrom(creds_, i + 1, [st EXCEPT !.heap = Append(@, bbsVC)],
                                 Append(result, Len(st.heap) + 1))

frameCreds(frame, creds_, st) ==
    IF frame.IsNil THEN [err |-> "", st |-> st, creds |-> creds_]
    ELSE frameCredsFrom(creds_, 1, st, <<>>)

----------------------------------------------------------------------------
(* The per-descriptor pipeline.                                            *)

filterCredentialsThatMatchDescriptor(pd_, creds_, descriptor, st) ==
    LET format == IF notNil(descriptor.Format) THEN descriptor.Format ELSE pd_.Format
        constrained(vpFormat, fc) ==
            [err |-> "", format |-> vpFormat, creds |-> fc.creds, st |-> fc.st]
        formatted(framed, ff) ==
            constrained(ff.format,
                filterConstraints(descriptor.Constraints,
                    IF ~descriptor.Schema.IsNil
                    THEN filterSchema(descriptor.Schema.Items, ff.creds, framed.st.heap).creds
                    ELSE ff.creds,
                    framed.st))
        afterFrame(framed) ==
            IF framed.err # ""
            THEN [err |-> framed.err, format |-> "", creds |-> <<>>, st |-> framed.st]
            ELSE formatted(framed,
                     IF notNil(format) THEN filterFormat(format, framed.creds, framed.st.heap)
                     ELSE [format |-> "", creds |-> framed.creds])
    IN  afterFrame(frameCreds(pd_.Frame, creds_, st))

----------------------------------------------------------------------------
(* Requirement evaluator.                                                  *)

\* The first loop of mergeNestedResult and, with checkExclude, the second:
\* append the credentials of list whose id is not yet in the bucket.
RECURSIVE mergeCredentials(_, _, _, _, _, _, _)
mergeCredentials(list, i, merged, key, exclude, checkExclude, heap) ==
    IF i > Len(list) THEN merged
    ELSE LET id == heap[list[i]].ID
             inSet == \E j \in DOMAIN merged : heap[merged[j]].ID = id
             exist == checkExclude /\ (<<key>> \o id) \in exclude
         IN  mergeCredentials(list, i + 1,
                              IF ~inSet /\ ~exist THEN Append(merged, list[i]) ELSE merged,
                              key, exclude, checkExclude, heap)

RECURSIVE mergeNestedResultFrom(_, _, _, _, _)
mergeNestedResultFrom(nr, exclude, heap, i, result) ==
    IF i > Len(nr) THEN result
    ELSE LET res == nr[i]
             bucket(key) ==
                 LET old == IF key \in DOMAIN result THEN result[key] ELSE <<>>
                     kept == mergeCredentials(old, 1, <<>>, key, exclude, FALSE, heap)
                 IN  mergeCredentials(res[key], 1, kept, key, exclude, TRUE, heap)
         IN  mergeNestedResultFrom(nr, exclude, heap, i + 1,
                 [key \in (DOMAIN result) \cup (DOMAIN res) |->
                     IF key \in DOMAIN res THEN bucket(key) ELSE result[key]])

mergeNestedResult(nr, exclude, heap) == mergeNestedResultFrom(nr, exclude, heap, 1, EmptyMap)

\* set[trimTmpID(cred.ID)][desc] = cred.ID for every credential of res.
addToSet(set, res, heap) ==
    LET ids(desc) == {trimTmpID(heap[res[desc][j]].ID) : j \in DOMAIN res[desc]}
        newKeys == UNION {ids(desc) : desc \in DOMAIN res}
        oldDescs(k) == IF k \in DOMAIN set THEN DOMAIN set[k] ELSE {}
        newDescs(k) == {desc \in DOMAIN res : k \in ids(desc)}
        last(k, desc) ==
            LET js == {j \in DOMAIN res[desc] : trimTmpID(heap[res[desc][j]].ID) = k}
                j == CHOOSE m \in js : \A n \in js : n <= m
            IN  heap[res[desc][j]].ID
    IN  [k \in (DOMAIN set) \cup newKeys |->
            [desc \in oldDescs(k) \cup newDescs(k) |->
                IF desc \in newDescs(k) THEN last(k, desc) ELSE set[k][desc]]]

\* What one call of applyRequirement returned, kept for the properties.
Eval(path, req, err, format, result, childErr, heap) ==
    [path |-> path, req |-> req, err |-> err, format |-> format,
     result |-> [d \in DOMAIN result |-> [j \in DOMAIN result[d] |-> heap[result[d][j]].ID]],
     childErr |-> childErr]

\* The loop over req.InputDescriptors.
RECURSIVE applyDescriptors(_, _, _, _, _, _, _)
applyDescriptors(pd_, descriptors, creds_, i, st, vpFormat, result) ==
    IF i > Len(descriptors)
    THEN [err |-> "", st |-> st, format |-> vpFormat, result |-> result]
    ELSE LET rest(f) ==
                 IF f.err # ""
                 THEN [err |-> f.err, st |-> f.st, format |-> "", result |-> EmptyMap]
                 ELSE applyDescriptors(pd_, descriptors, creds_, i + 1, f.st,
                                       IF f.format # "" THEN f.format ELSE vpFormat,
                                       IF Len(f.creds) # 0
                                       THEN Put(result, descriptors[i].ID, f.creds)
                                       ELSE result)
         IN  rest(filterCredentialsThatMatchDescriptor(pd_, creds_, descriptors[i], st))

RECURSIVE applyRequirement(_, _, _, _, _)
RECURSIVE applyNested(_, _, _, _, _, _, _, _, _, _, _)

\* The loop over req.Nested.
applyNested(pd_, req, creds_, path, i, st, vpFormat, nestedResult, set, childErr, log) ==
    IF i > Len(req.Nested)
    THEN [err |-> "", st |-> st, format |-> vpFormat, nestedResult |-> nestedResult,
          set |-> set, childErr |-> childErr, log |-> log]
    ELSE LET rest(r) ==
                 IF r.err = ErrNoCredentials
                 THEN applyNested(pd_, req, creds_, path, i + 1, r.st, vpFormat, nestedResult,
                                  set, Append(childErr, r.err), log \cup r.log)
                 ELSE IF r.err # ""
                 THEN [err |-> r.err, st |-> r.st, format |-> "", nestedResult |-> <<>>,
                       set |-> set, childErr |-> Append(childErr, r.err),
                       log |-> log \cup r.log]
                 ELSE applyNested(pd_, req, creds_, path, i + 1, r.st,
                                  IF DOMAIN r.result # {} THEN r.format ELSE vpFormat,
                                  IF DOMAIN r.result # {} THEN Append(nestedResult, r.result)
                                  ELSE nestedResult,
                                  addToSet(set, r.result, r.st.heap),
                                  Append(childErr, r.err), log \cup r.log)
         IN  rest(applyRequirement(pd_, req.Nested[i], creds_, Append(path, i), st))

applyRequirement(pd_, req, creds_, path, st) ==
    LET exclude(set) ==
            UNION {{<<desc>> \o set[k][desc] : desc \in DOMAIN set[k]} :
                      k \in {c \in DOMAIN set :
                                ~isLenApplicable(req, Cardinality(DOMAIN set[c]))}}
        returned(err, format, result, childErr, st_, log) ==
            [err |-> err, format |-> format, result |-> result, st |-> st_,
             log |-> log \cup {Eval(path, req, err, format, result, childErr, st_.heap)}]
        leaf(l) ==
            IF l.err # "" THEN returned(l.err, "", EmptyMap, <<>>, l.st, {})
            ELSE IF isLenApplicable(req, Cardinality(DOMAIN l.result))
            THEN returned("", l.format, l.result, <<>>, l.st, {})
            ELSE returned(ErrNoCredentials, "", EmptyMap, <<>>, l.st, {})
        branch(b) ==
            IF b.err # "" THEN returned(b.err, "", EmptyMap, b.childErr, b.st, b.log)
            ELSE returned("", b.format,
                          mergeNestedResult(b.nestedResult, exclude(b.set), b.st.heap),
                          b.childErr, b.st, b.log)
    IN  IF Len(req.InputDescriptors) # 0
        THEN leaf(applyDescriptors(pd_, req.InputDescriptors, creds_, 1, st,
                                   FormatLDPVP, EmptyMap))
        ELSE branch(applyNested(pd_, req, creds_, path, 1, st, FormatLDPVP, <<>>, EmptyMap,
                                <<>>, {}))

----------------------------------------------------------------------------
(* Submission assembler.                                                   *)

\* sort.Strings on the keys of the map.
RECURSIVE sortStrings(_)
sortStrings(S) ==
    IF S = {} THEN <<>>
    ELSE LET k == CHOOSE a \in S : \A b \in S : ~StrLess(b, a)
         IN  <<k>> \o sortStrings(S \ {k})

\* byID.Less with the comparison turned round.
Less_reversed(a, b) == StrLess(b.ID, a.ID)

\* byID.Less
Less(a, b) == StrLess(a.ID, b.ID)

\* sort.Sort(byID(descriptors)): for the at most 12 entries built here Go
\* runs its insertion sort, which moves an entry left while it is Less.
RECURSIVE insertByID(_, _)
insertByID(sorted, e) ==
    IF sorted = <<>> THEN <<e>>
    ELSE IF Less(e, sorted[Len(sorted)])
         THEN Append(insertByID(SubSeq(sorted, 1, Len(sorted) - 1), e), sorted[Len(sorted)])
         ELSE Append(sorted, e)

RECURSIVE byID(_)
byID(descriptors) ==
    IF descriptors = <<>> THEN <<>>
    ELSE insertByID(byID(SubSeq(descriptors, 1, Len(descriptors) - 1)),
                    descriptors[Len(descriptors)])

\* The two nested loops of merge over the (descriptor id, credential) pairs.
\* An entry's Path is the pair <<"$.verifiableCredential", n>>; cell is the
\* heap cell of the credential the entry was built for (not in the Go struct).
RECURSIVE mergeFrom(_, _, _, _, _, _, _)
mergeFrom(presentationFormat, pairs, i, heap, setOfCreds, result, descriptors) ==
    IF i > Len(pairs) THEN [heap |-> heap, result |-> result, descriptors |-> descriptors]
    ELSE LET descriptorID == pairs[i].key
             p == pairs[i].cred
             ok == heap[p].ID \in DOMAIN setOfCreds
             heap1 == IF ok THEN heap ELSE [heap EXCEPT ![p].ID = trimTmpID(@)]
             set1 == IF ok THEN setOfCreds ELSE Put(setOfCreds, heap1[p].ID, Len(descriptors))
             vcFormat == IF heap1[p].JWT # NoJWT THEN FormatJWTVC ELSE FormatLDPVC
             mapping == [ID |-> descriptorID, Format |-> presentationFormat, Path |-> "$",
                         PathNested |-> [ID |-> descriptorID, Format |-> vcFormat,
                                         Path |-> <<"$.verifiableCredential", set1[heap1[p].ID]>>],
                         cell |-> p]
         IN  mergeFrom(presentationFormat, pairs, i + 1, heap1, set1,
                       IF ok THEN result ELSE Append(result, p),
                       \* setOfDescriptors is never written to: the lookup always misses
                       Append(descriptors, mapping))

merge(presentationFormat, setOfCredentials, heap) ==
    LET keys == sortStrings(DOMAIN setOfCredentials)
        pairs == Concat([k \in DOMAIN keys |->
                     [j \in DOMAIN setOfCredentials[keys[k]] |->
                         [key |-> keys[k], cred |-> setOfCredentials[keys[k]][j]]]])
        sorted(m) == [heap |-> m.heap, result |-> m.result, descriptors |-> byID(m.descriptors)]
    IN  sorted(mergeFrom(presentationFormat, pairs, 1, heap, EmptyMap, <<>>, <<>>))

----------------------------------------------------------------------------
(* Match-Requirements.                                                     *)

RECURSIVE matchDescriptors(_, _, _, _, _, _)
matchDescriptors(pd_, descriptors, creds_, i, st, out) ==
    IF i > Len(descriptors) THEN [err |-> "", st |-> st, Descriptors |-> out]
    ELSE LET rest(f) ==
                 IF f.err # "" THEN [err |-> f.err, st |-> f.st, Descriptors |-> <<>>]
                 ELSE matchDescriptors(pd_, descriptors, creds_, i + 1, f.st,
                          Append(out, [ID |-> descriptors[i].ID,
                                       MatchedVCs |-> f.creds]))
         IN  rest(filterCredentialsThatMatchDescriptor(pd_, creds_, descriptors[i], st))

RECURSIVE matchRequirement(_, _, _, _)
RECURSIVE matchNested(_, _, _, _, _, _)

matchNested(pd_, nested, creds_, i, st, out) ==
    IF i > Len(nested) THEN [err |-> "", st |-> st, Nested |-> out]
    ELSE LET rest(m) ==
                 IF m.err # "" THEN [err |-> m.err, st |-> m.st, Nested |-> <<>>]
                 ELSE matchNested(pd_, nested, creds_, i + 1, m.st, Append(out, m.matched))
         IN  rest(matchRequirement(pd_, nested[i], creds_, st))

\* MatchedVCs hold heap cells until the call returns.
matchRequirement(pd_, req, creds_, st) ==
    LET matchedReq(descriptors, nested) ==
            [Rule |-> req.Rule, Count |-> req.Count, Min |-> req.Min, Max |-> req.Max,
             Descriptors |-> descriptors, Nested |-> nested]
        nestedDone(ds, ns) ==
            [err |-> ns.err, st |-> ns.st, matched |-> matchedReq(ds.Descriptors, ns.Nested)]
        descriptorsDone(ds) ==
            IF ds.err # "" THEN [err |-> ds.err, st |-> ds.st, matched |-> matchedReq(<<>>, <<>>)]
            ELSE nestedDone(ds, matchNested(pd_, req.Nested, creds_, 1, ds.st, <<>>))
    IN  descriptorsDone(matchDescriptors(pd_, req.InputDescriptors, creds_, 1, st, <<>>))

\* The credentials behind the cells of a matched requirement.
RECURSIVE derefMatched(_, _)
derefMatched(m, heap) ==
    [m EXCEPT !.Descriptors = [i \in DOMAIN @ |->
                                  [@[i] EXCEPT !.MatchedVCs = [j \in DOMAIN @ |-> heap[@[j]]]]],
              !.Nested = [i \in DOMAIN @ |-> derefMatched(@[i], heap)]]

----------------------------------------------------------------------------
(* The two entry points, as functions of the definition and the heap that  *)
(* holds the caller's credentials.  The uuid source counts from 1 in each  *)
(* call.                                                                   *)

\* gojsonschema.Validate against DefinitionJSONSchemaV1 / V2: a submission
\* requirement names a rule and exactly one of from and from_nested.
RECURSIVE validRequirement(_)
validRequirement(sr) ==
    /\ sr.Rule \in {All, Pick}
    /\ (sr.From # "") # (Len(sr.FromNested) # 0)
    /\ \A i \in DOMAIN sr.FromNested : validRequirement(sr.FromNested[i])

ValidateSchema(pd_) ==
    IF \A i \in DOMAIN pd_.SubmissionRequirements : validRequirement(pd_.SubmissionRequirements[i])
    THEN "" ELSE "invalid definition"

NoVP ==
    [seq |-> 0, err |-> "", credentials |-> <<>>, cells |-> <<>>,
     descriptor_map |-> <<>>, buckets |-> EmptyMap]

CreateVPCall(pd_, heap0) ==
    LET invalid == ValidateSchema(pd_)
        mk == makeRequirement(pd_.SubmissionRequirements, pd_.InputDescriptors)
        credentials == [i \in 1..Len(heap0) |-> i]
        failed(err, heap, log) ==
            [heap |-> heap, log |-> log, vp |-> [NoVP EXCEPT !.err = err]]
        presented(r, m) ==
            [heap |-> m.heap, log |-> r.log,
             vp |-> [seq |-> 0, err |-> "",
                     credentials |-> [i \in DOMAIN m.result |-> m.heap[m.result[i]]],
                     cells |-> m.result,
                     descriptor_map |-> m.descriptors,
                     buckets |-> r.result]]
        applied(r) ==
            IF r.err # "" THEN failed(r.err, r.st.heap, r.log)
            ELSE presented(r, merge(r.format, r.result, r.st.heap))
    IN  IF invalid # "" THEN failed(invalid, heap0, {})
        ELSE IF mk.err # "" THEN failed(mk.err, heap0, {})
        ELSE applied(applyRequirement(pd_, mk.req, credentials, <<>>,
                                      [heap |-> heap0, uuid |-> 1]))

RECURSIVE matchRequirements(_, _, _, _, _)
matchRequirements(pd_, requirements, creds_, i, acc) ==
    IF i > Len(requirements) THEN acc
    ELSE LET rest(m) ==
                 IF m.err # "" THEN [err |-> m.err, st |-> m.st, reqs |-> <<>>]
                 ELSE matchRequirements(pd_, requirements, creds_, i + 1,
                          [err |-> "", st |-> m.st, reqs |-> Append(acc.reqs, m.matched)])
         IN  rest(matchRequirement(pd_, requirements[i], creds_, acc.st))

NoMatch == [seq |-> 0, err |-> "", reqs |-> <<>>]

MatchSubmissionRequirementCall(pd_, heap0) ==
    LET invalid == ValidateSchema(pd_)
        mk == makeRequirementsForMatch(pd_.SubmissionRequirements, pd_.InputDescriptors)
        credentials == [i \in 1..Len(heap0) |-> i]
        matchedAll(r) ==
            IF r.err # "" THEN [heap |-> r.st.heap, matched |-> [NoMatch EXCEPT !.err = r.err]]
            ELSE [heap |-> r.st.heap,
                  matched |-> [seq |-> 0, err |-> "",
                               reqs |-> [i \in DOMAIN r.reqs |->
                                            derefMatched(r.reqs[i], r.st.heap)]]]
    IN  IF invalid # "" THEN [heap |-> heap0, matched |-> [NoMatch EXCEPT !.err = invalid]]
        ELSE IF mk.err # "" THEN [heap |-> heap0, matched |-> [NoMatch EXCEPT !.err = mk.err]]
        ELSE matchedAll(matchRequirements(pd_, mk.reqs, credentials, 1,
                 [err |-> "", st |-> [heap |-> heap0, uuid |-> 1], reqs |-> <<>>]))

----------------------------------------------------------------------------
(* Inputs.                                                                 *)

NoFilter == [IsNil |-> TRUE, Const |-> ""]
NoConstraints ==
    [IsNil |-> TRUE, LimitDisclosure |-> Nil, SubjectIsIssuer |-> Nil, Fields |-> <<>>]
NoType == [IsNil |-> TRUE, Alg |-> <<>>, ProofType |-> <<>>]
NoFormat ==
    [IsNil |-> TRUE, Jwt |-> NoType, JwtVC |-> NoType, JwtVP |-> NoType,
     Ldp |-> NoType, LdpVC |-> NoType, LdpVP |-> NoType]
NoSchema == [IsNil |-> TRUE, Items |-> <<>>]
NoFrame == [IsNil |-> TRUE]

Field(path, filter, predicate) == [Path |-> path, Filter |-> filter, Predicate |-> predicate]

ConstraintsOf(limit, fields) ==
    [IsNil |-> FALSE, LimitDisclosure |-> limit, SubjectIsIssuer |-> Nil, Fields |-> fields]

\* The constraints a descriptor is drawn with.
ConstraintPool ==
    { NoConstraints,
      ConstraintsOf(Nil, <<Field(<<"b">>, [IsNil |-> FALSE, Const |-> "v2"], Nil)>>),
      ConstraintsOf(Required, <<Field(<<"a">>, NoFilter, Nil)>>) }

Descriptor(id, group, constraints) ==
    [ID |-> id, Group |-> group, Schema |-> NoSchema, Constraints |-> constraints,
     Format |-> NoFormat]

DescriptorLists ==
    LET xs == {Descriptor("x", <<"A">>, c) : c \in ConstraintPool}
        ys == {Descriptor("y", g, c) : g \in {<<"A">>, <<"B">>}, c \in ConstraintPool}
    IN  {<<x>> : x \in xs} \cup {<<x, y>> : x \in xs, y \in ys} \cup {<<y, x>> : x \in xs, y \in ys}

SR(rule, count, min, max, from, fromNested) ==
    [Rule |-> rule, Count |-> count, Min |-> min, Max |-> max, From |-> from,
     FromNested |-> fromNested]

AllFrom(g) == SR(All, 0, 0, 0, g, <<>>)

RequirementPool ==
    { <<>>,
      <<AllFrom("A")>>,
      <<SR(Pick, 1, 0, 0, "A", <<>>)>>,
      <<SR(All, 0, 0, 0, "", <<AllFrom("A"), AllFrom("B")>>)>>,
      <<SR(Pick, 1, 0, 0, "", <<AllFrom("A"), AllFrom("B")>>)>>,
      <<SR(Pick, 0, 1, 1, "", <<AllFrom("A"), AllFrom("B")>>)>>,
      <<AllFrom("A"), AllFrom("B")>>,
      <<SR(All, 0, 0, 0, "", <<>>)>> }

Definitions ==
    { [ID |-> "pd", Format |-> NoFormat, Frame |-> NoFrame,
       SubmissionRequirements |-> srs, InputDescriptors |-> ds] :
          srs \in RequirementPool, ds \in DescriptorLists }

CredentialIDs == <<"c1", "c2", "c3">>

\* origin is the position of the credential in CredentialIDs; a reshaped copy
\* keeps it (it is not a field of the Go struct).
Credential(id, jwt, alg, disclosures, proofs, body, sd, marshalOK) ==
    [ID |-> <<id>>, origin |-> IndexOf(CredentialIDs, id), JWT |-> jwt, SDJWTHashAlg |-> alg, SDJWTDisclosures |-> disclosures,
     Proofs |-> proofs, Context |-> << <<"https://ctx/a">> >>, Types |-> <<"TypeA">>,
     SubjectIDs |-> <<"did:subject">>, IssuerID |-> "did:issuer",
     body |-> body, sd |-> sd, marshalOK |-> marshalOK]

claimA == [n \in {"a"} |-> "v1"]
claimB == [n \in {"b"} |-> "v2"]
claimAB == [n \in {"a", "b"} |-> IF n = "a" THEN "v1" ELSE "v2"]
compactJWT == <<"ES256", "payload", "signature">>

\* The kinds of credential a caller holds: JSON-LD credentials with claim a,
\* claim b or both, an SD-JWT credential disclosing a and b, and a JWT
\* credential that json.Marshal rejects.
CredentialKinds(id) ==
    { Credential(id, NoJWT, "", <<>>, <<"Ed25519Signature2018">>, claimA, EmptyMap, TRUE),
      Credential(id, NoJWT, "", <<>>, <<"Ed25519Signature2018">>, claimB, EmptyMap, TRUE),
      Credential(id, NoJWT, "", <<>>, <<"Ed25519Signature2018">>, claimAB, EmptyMap, TRUE),
      Credential(id, compactJWT, "sha-256", <<"a", "b">>, <<>>, EmptyMap, claimAB, TRUE),
      Credential(id, compactJWT, "", <<>>, <<>>, claimA, EmptyMap, FALSE) }

\* Lists of up to MaxCreds credentials, the i-th with id CredentialIDs[i].
CredentialLists ==
    UNION { {l \in [1..n -> UNION {CredentialKinds(CredentialIDs[i]) : i \in 1..n}] :
                \A i \in 1..n : l[i] \in CredentialKinds(CredentialIDs[i])} : n \in 0..MaxCreds }

----------------------------------------------------------------------------
(* The state machine.                                                      *)

\* No filter has been called on its own.
NoRet == [op |-> ""]

Init ==
    /\ pd \in Definitions
    /\ creds \in CredentialLists
    /\ calls = 0
    /\ vp = NoVP
    /\ matched = NoMatch
    /\ evals = {}
    /\ ret = NoRet

CreateVP ==
    /\ calls < MaxCalls
    /\ LET returned(r) ==
               /\ vp' = [r.vp EXCEPT !.seq = calls + 1]
               /\ evals' = r.log
               /\ creds' = SubSeq(r.heap, 1, Len(creds))
       IN  returned(CreateVPCall(pd, creds))
    /\ calls' = calls + 1
    /\ UNCHANGED <<pd, matched, ret>>

MatchSubmissionRequirement ==
    /\ calls < MaxCalls
    /\ LET returned(r) ==
               /\ matched' = [r.matched EXCEPT !.seq = calls + 1]
               /\ creds' = SubSeq(r.heap, 1, Len(creds))
       IN  returned(MatchSubmissionRequirementCall(pd, creds))
    /\ calls' = calls + 1
    /\ UNCHANGED <<pd, vp, evals, ret>>

Next == CreateVP \/ MatchSubmissionRequirement

Spec == Init /\ [][Next]_vars

TypeOK == calls \in 0..MaxCalls

----------------------------------------------------------------------------
(* Properties.                                                             *)

\* The last call made was a CreateVP that returned a presentation.
Presented == vp.seq > 0 /\ vp.err = ""

\* The index n of the path "$.verifiableCredential[n]" of a descriptor-map entry.
PathIndex(mapping) == mapping.PathNested.Path[2]

\* The ids of the descriptors under a requirement.
RECURSIVE descriptorIDs(_)
descriptorIDs(req) ==
    {req.InputDescriptors[i].ID : i \in DOMAIN req.InputDescriptors}
        \cup UNION {descriptorIDs(req.Nested[i]) : i \in DOMAIN req.Nested}

\* The descriptors of a result map that hold at least one credential.
Filled(result) == {d \in DOMAIN result : Len(result[d]) > 0}

\* C1: when CreateVP succeeds, every descriptor-map entry's path index is below
\* the length of the credential array and the credential at that index is the
\* one the entry was emitted for.
C1_PathsResolve ==
    Presented =>
        \A i \in DOMAIN vp.descriptor_map :
            LET n == PathIndex(vp.descriptor_map[i])
            IN  /\ n < Len(vp.credentials)
                /\ vp.cells[n + 1] = vp.descriptor_map[i].cell

\* C2: a rule=all requirement built from from_nested succeeds iff every nested
\* child contributes a credential to its result, and fails with
\* ErrNoCredentials when some child contributes none.
C2_AllBranch ==
    \A e \in evals :
        (e.req.Rule = All /\ Len(e.req.Nested) > 0) =>
            LET contributes(k) == descriptorIDs(e.req.Nested[k]) \cap Filled(e.result) # {}
                every == \A k \in DOMAIN e.req.Nested : contributes(k)
            IN  /\ (e.err = "") <=> every
                /\ ~every => e.err = ErrNoCredentials

\* C3: when CreateVP succeeds, the number of children of every rule=pick
\* requirement that contribute a credential to the result is count, at least
\* min and at most max, for each of the three that is given.
C3_PickCardinality ==
    Presented =>
        \A e \in evals :
            e.req.Rule = Pick =>
                LET final == Filled(vp.buckets)
                    n == IF Len(e.req.InputDescriptors) > 0
                         THEN Cardinality(descriptorIDs(e.req) \cap final)
                         ELSE Cardinality({k \in DOMAIN e.req.Nested :
                                              descriptorIDs(e.req.Nested[k]) \cap final # {}})
                IN  /\ e.req.Count > 0 => n = e.req.Count
                    /\ e.req.Min > 0 => n >= e.req.Min
                    /\ e.req.Max > 0 => n <= e.req.Max

\* The credentials descriptor d matches among the credentials in heap, judged
\* on its own.
Matches(d, heap) ==
    filterCredentialsThatMatchDescriptor(pd, [i \in 1..Len(heap) |-> i], d,
                                         [heap |-> heap, uuid |-> 1]).creds

\* C4: without submission_requirements, CreateVP succeeds exactly when every
\* input descriptor matches one of the credentials passed in and returns
\* ErrNoCredentials otherwise; MatchSubmissionRequirement returns one matched
\* requirement with rule=all, count = number of descriptors and one entry per
\* descriptor in definition order.
C4_DefaultAllGroup ==
    [][Len(pd.SubmissionRequirements) = 0 =>
        /\ vp'.seq # vp.seq =>
            /\ (vp'.err = "") <=>
                   \A i \in DOMAIN pd.InputDescriptors :
                       Len(Matches(pd.InputDescriptors[i], creds)) > 0
            /\ vp'.err \in {"", ErrNoCredentials}
        /\ matched'.seq # matched.seq =>
            /\ matched'.err = ""
            /\ Len(matched'.reqs) = 1
            /\ matched'.reqs[1].Rule = All
            /\ matched'.reqs[1].Count = Len(pd.InputDescriptors)
            /\ [i \in DOMAIN matched'.reqs[1].Descriptors |-> matched'.reqs[1].Descriptors[i].ID]
                   = [i \in DOMAIN pd.InputDescriptors |-> pd.InputDescriptors[i].ID]
      ]_vars

\* C5: no two credentials of the emitted array have the same id.
C5_NoDuplicateIDs ==
    Presented =>
        \A i, j \in DOMAIN vp.credentials :
            i # j => trimTmpID(vp.credentials[i].ID) # trimTmpID(vp.credentials[j].ID)

\* What C6 says a call leaves alone in a credential.
Observed(credential) ==
    [ID |-> credential.ID, JWT |-> credential.JWT,
     SDJWTDisclosures |-> credential.SDJWTDisclosures]

\* C6: a call of CreateVP or MatchSubmissionRequirement leaves the id, the JWT
\* form and the disclosure list of every credential passed in as they were.
C6_InputsUnchanged ==
    [][\A i \in DOMAIN creds : Observed(creds'[i]) = Observed(creds[i])]_vars

\* What a caller reads from a CreateVP outcome.
Output(v) ==
    [err |-> v.err, credentials |-> v.credentials,
     descriptor_map |-> [i \in DOMAIN v.descriptor_map |->
                            [ID |-> v.descriptor_map[i].ID,
                             Format |-> v.descriptor_map[i].Format,
                             Path |-> v.descriptor_map[i].Path,
                             PathNested |-> v.descriptor_map[i].PathNested]]]

\* C7: a CreateVP made right after a CreateVP, on the same definition and the
\* same credential objects, returns what the first returned.
C7_Deterministic ==
    [][(vp.seq > 0 /\ vp.seq = calls /\ vp'.seq = calls + 1) => Output(vp') = Output(vp)]_vars

\* C8: a branch goes on when some of its children return ErrNoCredentials, and
\* when all of them do CreateVP returns ErrNoCredentials.
C8_NoCredentialsRecovery ==
    vp.seq > 0 =>
        \A e \in evals :
            Len(e.req.Nested) > 0 =>
                LET failed == {k \in DOMAIN e.childErr : e.childErr[k] = ErrNoCredentials}
                IN  /\ (failed # {} /\ failed # DOMAIN e.req.Nested) => e.err = ""
                    /\ failed = DOMAIN e.req.Nested => vp.err = ErrNoCredentials

\* C9: no id of the emitted array carries the transient marker, and each is the
\* id of the caller's credential the emitted one was made from.
C9_NoTransientIDs ==
    Presented =>
        \A i \in DOMAIN vp.credentials :
            /\ ~contains(vp.credentials[i].ID, tmpEnding)
            /\ vp.credentials[i].ID = <<CredentialIDs[vp.credentials[i].origin]>>

\* C9 witness: a presentation that holds a reshaped copy, which was given a
\* transient id when it was made.
C9_Witness ==
    /\ Presented
    /\ \E i \in DOMAIN vp.cells : vp.cells[i] > Len(creds)

\* C10 as stated: the descriptor map is strictly ascending by id.
C10_StrictlyAscending ==
    Presented =>
        \A i, j \in DOMAIN vp.descriptor_map :
            i < j => StrLess(vp.descriptor_map[i].ID, vp.descriptor_map[j].ID)

\* C10 amended: the descriptor map is ascending by id, with one entry for each
\* credential of each descriptor's bucket, so that entries share an id exactly
\* when a descriptor is matched by two or more credentials.
C10_Ascending ==
    Presented =>
        /\ \A i, j \in DOMAIN vp.descriptor_map :
               i < j => ~StrLess(vp.descriptor_map[j].ID, vp.descriptor_map[i].ID)
        /\ \A d \in DOMAIN vp.buckets :
               Cardinality({i \in DOMAIN vp.descriptor_map : vp.descriptor_map[i].ID = d})
                   = Len(vp.buckets[d])
        /\ \A i \in DOMAIN vp.descriptor_map : vp.descriptor_map[i].ID \in DOMAIN vp.buckets

\* C10 witness: a presentation in which one descriptor is matched by two
\* credentials and another descriptor is matched too.
C10_Witness ==
    /\ Presented
    /\ \E d, f \in DOMAIN vp.buckets : d # f /\ Len(vp.buckets[d]) >= 2 /\ Len(vp.buckets[f]) >= 1

----------------------------------------------------------------------------
(* Match-Requirements followed by Create-Presentation on what it matched.  *)

\* The MatchedVCs of a matched requirement and of the requirements nested in
\* it, in the order they are listed.
RECURSIVE matchedVCs(_)
matchedVCs(m) ==
    Concat([i \in DOMAIN m.Descriptors |-> m.Descriptors[i].MatchedVCs])
        \o Concat([i \in DOMAIN m.Nested |-> matchedVCs(m.Nested[i])])

\* The distinct objects of a list of credentials, each at its first place.  Two
\* objects never agree in every field: the ids of the caller's credentials
\* differ and every reshaped copy has a transient id of its own.
RECURSIVE distinctVCs(_, _)
distinctVCs(list, seen) ==
    IF list = <<>> THEN seen
    ELSE distinctVCs(Tail(list),
                     IF \E k \in DOMAIN seen : seen[k] = Head(list) THEN seen
                     ELSE Append(seen, Head(list)))

\* The union of all MatchedVCs of the last MatchSubmissionRequirement.
matchedUnion == distinctVCs(Concat([i \in DOMAIN matched.reqs |-> matchedVCs(matched.reqs[i])]), <<>>)

\* The caller passes the union of the MatchedVCs to CreateVP.  A credential of
\* the caller that is in the union is the same object, so what the call does to
\* it shows in creds.
CreateVPOnMatched ==
    /\ calls < MaxCalls
    /\ matched.seq = calls
    /\ matched.seq > 0
    /\ matched.err = ""
    /\ LET returned(r) ==
               /\ vp' = [r.vp EXCEPT !.seq = calls + 1]
               /\ evals' = r.log
               /\ creds' = [i \in DOMAIN creds |->
                               IF \E k \in DOMAIN matchedUnion : matchedUnion[k] = creds[i]
                               THEN r.heap[CHOOSE k \in DOMAIN matchedUnion :
                                               matchedUnion[k] = creds[i]]
                               ELSE creds[i]]
       IN  returned(CreateVPCall(pd, matchedUnion))
    /\ calls' = calls + 1
    /\ UNCHANGED <<pd, matched, ret>>

NextRoundTrip == MatchSubmissionRequirement \/ CreateVPOnMatched

SpecRoundTrip == Init /\ [][NextRoundTrip]_vars

\* The caller's credentials the credentials of a list were made from.
origins(list) == {list[i].origin : i \in DOMAIN list}

\* C11: CreateVP on the union of the MatchedVCs of a MatchSubmissionRequirement
\* succeeds and returns exactly the credentials, by original id, that the
\* match reported.
C11_RoundTrip ==
    [][vp'.seq # vp.seq =>
          /\ vp'.err = ""
          /\ origins(vp'.credentials) = origins(matchedUnion)]_vars

----------------------------------------------------------------------------
(* The constraint filter called on its own.  The constraints are those of  *)
(* the first input descriptor of pd, the credentials are the caller's.     *)

FilterV2 == [IsNil |-> FALSE, Const |-> "v2"]

\* The fields a constraints object is drawn with: a path without filter, a
\* path with a filter, two paths with a filter, a path with predicate required.
FieldPool ==
    { Field(<<"a">>, NoFilter, Nil),
      Field(<<"b">>, FilterV2, Nil),
      Field(<<"b", "a">>, FilterV2, Nil),
      Field(<<"a">>, NoFilter, Required) }

FieldLists ==
    {<<>>} \cup {<<f>> : f \in FieldPool} \cup {<<f, g>> : f, g \in FieldPool}

ConstraintsUnderTest ==
    {NoConstraints} \cup
    { [IsNil |-> FALSE, LimitDisclosure |-> l, SubjectIsIssuer |-> s, Fields |-> fs] :
          l \in {Nil, Required}, s \in {Nil, Required}, fs \in FieldLists }

DefinitionsForConstraints ==
    { [ID |-> "pd", Format |-> NoFormat, Frame |-> NoFrame, SubmissionRequirements |-> <<>>,
       InputDescriptors |-> <<Descriptor("x", <<"A">>, c)>>] : c \in ConstraintsUnderTest }

claimAB3 == [n \in {"a", "b"} |-> IF n = "a" THEN "v1" ELSE "v3"]

\* JSON-LD credentials with claim a, with a and b = v2, with a and b = v3, one
\* with a BBS+ signature, one whose subject is its issuer, and an SD-JWT
\* credential disclosing a and b.
CredentialKindsForConstraints(id) ==
    { Credential(id, NoJWT, "", <<>>, <<"Ed25519Signature2018">>, claimA, EmptyMap, TRUE),
      Credential(id, NoJWT, "", <<>>, <<"Ed25519Signature2018">>, claimAB, EmptyMap, TRUE),
      Credential(id, NoJWT, "", <<>>, <<"Ed25519Signature2018">>, claimAB3, EmptyMap, TRUE),
      Credential(id, NoJWT, "", <<>>, <<"BbsBlsSignature2020">>, claimAB, EmptyMap, TRUE),
      [Credential(id, NoJWT, "", <<>>, <<"Ed25519Signature2018">>, claimA, EmptyMap, TRUE)
           EXCEPT !.SubjectIDs = <<"did:issuer">>],
      Credential(id, compactJWT, "sha-256", <<"a", "b">>, <<>>, EmptyMap, claimAB, TRUE) }

CredentialListsForConstraints ==
    UNION { {l \in [1..n -> UNION {CredentialKindsForConstraints(CredentialIDs[i]) : i \in 1..n}] :
                \A i \in 1..n : l[i] \in CredentialKindsForConstraints(CredentialIDs[i])} :
            n \in 0..MaxCreds }

InitConstraints ==
    /\ pd \in DefinitionsForConstraints
    /\ creds \in CredentialListsForConstraints
    /\ calls = 0
    /\ vp = NoVP
    /\ matched = NoMatch
    /\ evals = {}
    /\ ret = NoRet

\* filterConstraints(constraints, creds): ret keeps the constraints, the
\* credentials as they were passed, the cells returned and the heap after.
FilterConstraints ==
    /\ calls < MaxCalls
    /\ LET constraints == pd.InputDescriptors[1].Constraints
           returned(r) ==
               /\ ret' = [op |-> "filterConstraints", constraints |-> constraints,
                          input |-> creds, creds |-> r.creds, heap |-> r.st.heap]
               /\ creds' = SubSeq(r.st.heap, 1, Len(creds))
       IN  returned(filterConstraints(constraints, [i \in 1..Len(creds) |-> i],
                                      [heap |-> creds, uuid |-> 1]))
    /\ calls' = calls + 1
    /\ UNCHANGED <<pd, vp, matched, evals>>

NextConstraints == FilterConstraints

SpecConstraints == InitConstraints /\ [][NextConstraints]_vars

\* The claims a verifier reads from a credential: its body, with the claims of
\* the disclosures it carries for an SD-JWT credential.
shownClaims(credential) ==
    IF credential.SDJWTHashAlg # "" THEN CreateDisplayCredential(credential).body
    ELSE credential.body

\* The credentials filterConstraints returned.
returnedCreds == [j \in DOMAIN ret.creds |-> ret.heap[ret.creds[j]]]

\* C12: every credential the constraint filter returns carries true, and not
\* the value, at every matching path of a field with predicate required.
C12_PredicateHidesValue ==
    ret.op = "filterConstraints" =>
        \A j \in DOMAIN returnedCreds :
            \A i \in DOMAIN ret.constraints.Fields :
                LET f == ret.constraints.Fields[i]
                    before == shownClaims(ret.input[returnedCreds[j].origin])
                IN  isRequired(f.Predicate) =>
                        \A k \in DOMAIN f.Path :
                            f.Path[k] \in DOMAIN before =>
                                /\ f.Path[k] \in DOMAIN shownClaims(returnedCreds[j])
                                /\ shownClaims(returnedCreds[j])[f.Path[k]] = "true"

----------------------------------------------------------------------------
(* The format filter on its own.                                           *)

LdpOf(proofTypes) == [IsNil |-> FALSE, Alg |-> <<>>, ProofType |-> proofTypes]
JwtOf(algs) == [IsNil |-> FALSE, Alg |-> algs, ProofType |-> <<>>]

\* The formats a definition is drawn with: every member absent or present,
\* at least one present (filterFormat is called for such formats only).
FormatPool ==
    { f \in [IsNil : {FALSE},
             Jwt : {NoType, JwtOf(<<"ES256">>)},
             JwtVC : {NoType, JwtOf(<<"EDDSA">>)},
             JwtVP : {NoType, JwtOf(<<"ES256", "EdDSA">>)},
             Ldp : {NoType, LdpOf(<<"Ed25519Signature2018">>)},
             LdpVC : {NoType, LdpOf(<<"BbsBlsSignature2020">>)},
             LdpVP : {NoType, LdpOf(<<"JsonWebSignature2020", "BbsBlsSignature2020">>)}] :
          notNil(f) }

DefinitionsForFormat ==
    { [ID |-> "pd", Format |-> f, Frame |-> NoFrame, SubmissionRequirements |-> <<>>,
       InputDescriptors |-> <<Descriptor("x", <<"A">>, NoConstraints)>>] : f \in FormatPool }

\* JSON-LD credentials with one proof or two, JWT credentials with alg ES256
\* and EdDSA, a JWT without alg in its header, a JWT that does not parse (with
\* and without a proof), and a credential with neither proof nor JWT.
CredentialKindsForFormat(id) ==
    { Credential(id, NoJWT, "", <<>>, <<"Ed25519Signature2018">>, claimA, EmptyMap, TRUE),
      Credential(id, NoJWT, "", <<>>, <<"JsonWebSignature2020", "BbsBlsSignature2020">>, claimA, EmptyMap, TRUE),
      Credential(id, <<"ES256", "payload", "signature">>, "", <<>>, <<>>, claimA, EmptyMap, TRUE),
      Credential(id, <<"EdDSA", "payload", "signature">>, "", <<>>, <<>>, claimA, EmptyMap, TRUE),
      Credential(id, <<"{}", "payload", "signature">>, "", <<>>, <<>>, claimA, EmptyMap, TRUE),
      Credential(id, <<"ES256", "payload">>, "", <<>>, <<>>, claimA, EmptyMap, TRUE),
      Credential(id, <<"ES256", "payload">>, "", <<>>, <<"Ed25519Signature2018">>, claimA, EmptyMap, TRUE),
      Credential(id, NoJWT, "", <<>>, <<>>, claimA, EmptyMap, TRUE) }

CredentialListsForFormat ==
    UNION { {l \in [1..n -> UNION {CredentialKindsForFormat(CredentialIDs[i]) : i \in 1..n}] :
                \A i \in 1..n : l[i] \in CredentialKindsForFormat(CredentialIDs[i])} :
            n \in 0..MaxCreds }

InitFormat ==
    /\ pd \in DefinitionsForFormat
    /\ creds \in CredentialListsForFormat
    /\ calls = 0
    /\ vp = NoVP
    /\ matched = NoMatch
    /\ evals = {}
    /\ ret = NoRet

\* filterFormat(format, creds): ret keeps the format, the credentials passed,
\* the tag and the credentials returned.
FilterFormat ==
    /\ calls < MaxCalls
    /\ LET returned(r) ==
               ret' = [op |-> "filterFormat", format |-> pd.Format, input |-> creds,
                       tag |-> r.format, creds |-> [j \in DOMAIN r.creds |-> creds[r.creds[j]]]]
       IN  returned(filterFormat(pd.Format, [i \in 1..Len(creds) |-> i], creds))
    /\ calls' = calls + 1
    /\ UNCHANGED <<pd, creds, vp, matched, evals>>

NextFormat == FilterFormat

SpecFormat == InitFormat /\ [][NextFormat]_vars

\* The six buckets in the order they are tried.
bucketTags == <<FormatLDP, FormatLDPVC, FormatLDPVP, FormatJWT, FormatJWTVC, FormatJWTVP>>

bucketType(format, tag) ==
    CASE tag = FormatLDP -> format.Ldp
      [] tag = FormatLDPVC -> format.LdpVC
      [] tag = FormatLDPVP -> format.LdpVP
      [] tag = FormatJWT -> format.Jwt
      [] tag = FormatJWTVC -> format.JwtVC
      [] tag = FormatJWTVP -> format.JwtVP

\* The alg a JWT form carries in its header, <<>> when it carries none.
headerAlg(compact) ==
    IF Len(compact) = 3 /\ compact[1] # "{}" THEN <<compact[1]>> ELSE <<>>

\* Membership of a credential in a bucket, as the claim states it.
inBucket(credential, format, tag) ==
    LET t == bucketType(format, tag)
    IN  IF tag \in {FormatLDP, FormatLDPVC, FormatLDPVP}
        THEN /\ ~t.IsNil
             /\ \E i \in DOMAIN credential.Proofs : \E k \in DOMAIN t.ProofType :
                    credential.Proofs[i] = t.ProofType[k]
        ELSE /\ ~t.IsNil
             /\ credential.JWT # NoJWT
             /\ \E h \in Range(headerAlg(credential.JWT)) : \E k \in DOMAIN t.Alg :
                    fold(h) = fold(t.Alg[k])

bucket(input, format, tag) == SelectSeq(input, LAMBDA c : inBucket(c, format, tag))

\* C13: the format filter returns the first non-empty bucket in the order
\* ldp, ldp_vc, ldp_vp, jwt, jwt_vc, jwt_vp with that bucket's tag, and the
\* empty tag with no credentials when all six are empty; a credential is in
\* an ldp* bucket iff one of its proofs has a listed type, in a jwt* bucket
\* iff its JWT header alg equals a listed alg ignoring case.
C13_FirstNonEmptyBucket ==
    ret.op = "filterFormat" =>
        LET nonEmpty == {n \in DOMAIN bucketTags :
                             Len(bucket(ret.input, ret.format, bucketTags[n])) > 0}
        IN  IF nonEmpty = {}
            THEN ret.tag = "" /\ ret.creds = <<>>
            ELSE LET first == CHOOSE n \in nonEmpty : \A m \in nonEmpty : n <= m
                 IN  /\ ret.tag = bucketTags[first]
                     /\ ret.creds = bucket(ret.input, ret.format, bucketTags[first])

\* A jwt_vc bucket returned for a credential whose alg differs in case from
\* the listed one, an earlier bucket being declared but empty.
C13_Witness ==
    /\ ret.op = "filterFormat"
    /\ ret.tag = FormatJWTVC
    /\ ~ret.format.Ldp.IsNil
    /\ \E j \in DOMAIN ret.creds : ret.creds[j].JWT[1] = "EdDSA"
    /\ \E j \in DOMAIN ret.input : ret.input[j].Proofs # <<>>

----------------------------------------------------------------------------
(* The schema gate on its own.                                             *)

SchemaItem(uri, required) == [URI |-> uri, Required |-> required]

\* The entries a schema list is drawn with: schema:A and schema:B are ids of
\* terms of the contexts a and b, iri:B the expanded id of the term of b,
\* schema:C the id of no term.
SchemaPool ==
    { SchemaItem("schema:A", TRUE), SchemaItem("schema:A", FALSE),
      SchemaItem("schema:B", TRUE), SchemaItem("iri:B", FALSE),
      SchemaItem("schema:C", TRUE), SchemaItem("schema:C", FALSE) }

SchemaLists ==
    {<<>>} \cup {<<a>> : a \in SchemaPool} \cup {<<a, b>> : a, b \in SchemaPool}

DefinitionsForSchema ==
    { [ID |-> "pd", Format |-> NoFormat, Frame |-> NoFrame, SubmissionRequirements |-> <<>>,
       InputDescriptors |->
           <<[Descriptor("x", <<"A">>, NoConstraints)
                  EXCEPT !.Schema = [IsNil |-> FALSE, Items |-> items]]>>] :
          items \in SchemaLists }

LdCredential(id, context, types) ==
    [Credential(id, NoJWT, "", <<>>, <<"Ed25519Signature2018">>, claimA, EmptyMap, TRUE)
         EXCEPT !.Context = context, !.Types = types]

\* Credentials with context a, context b, both, context a named with a
\* fragment, a context that does not load (alone and after a), and a type
\* that context a does not define.
CredentialKindsForSchema(id) ==
    { LdCredential(id, << <<"https://ctx/a">> >>, <<"TypeA">>),
      LdCredential(id, << <<"https://ctx/b">> >>, <<"TypeB">>),
      LdCredential(id, << <<"https://ctx/a">>, <<"https://ctx/b">> >>, <<"TypeA", "TypeB">>),
      LdCredential(id, << <<"https://ctx/a", "#", "v1">> >>, <<"TypeA">>),
      LdCredential(id, << <<"https://ctx/bad">> >>, <<"TypeA">>),
      LdCredential(id, << <<"https://ctx/a">>, <<"https://ctx/bad">> >>, <<"TypeA">>),
      LdCredential(id, << <<"https://ctx/a">> >>, <<"TypeC">>) }

CredentialListsForSchema ==
    UNION { {l \in [1..n -> UNION {CredentialKindsForSchema(CredentialIDs[i]) : i \in 1..n}] :
                \A i \in 1..n : l[i] \in CredentialKindsForSchema(CredentialIDs[i])} :
            n \in 0..MaxCreds }

InitSchema ==
    /\ pd \in DefinitionsForSchema
    /\ creds \in CredentialListsForSchema
    /\ calls = 0
    /\ vp = NoVP
    /\ matched = NoMatch
    /\ evals = {}
    /\ ret = NoRet

\* filterCredentialsThatMatchDescriptor for a descriptor with a schema list:
\* ret keeps what filterSchema returned and asked the loader for, and the
\* error and credentials its caller returned.
FilterSchema ==
    /\ calls < MaxCalls
    /\ LET descriptor == pd.InputDescriptors[1]
           returned(gate, r) ==
               ret' = [op |-> "filterSchema", schemas |-> descriptor.Schema.Items,
                       input |-> creds,
                       creds |-> [j \in DOMAIN gate.creds |-> creds[gate.creds[j]]],
                       loaded |-> gate.loaded,
                       err |-> r.err,
                       matched |-> [j \in DOMAIN r.creds |-> r.st.heap[r.creds[j]]]]
       IN  returned(filterSchema(descriptor.Schema.Items, [i \in 1..Len(creds) |-> i], creds),
                    filterCredentialsThatMatchDescriptor(pd, [i \in 1..Len(creds) |-> i],
                        descriptor, [heap |-> creds, uuid |-> 1]))
    /\ calls' = calls + 1
    /\ UNCHANGED <<pd, creds, vp, matched, evals>>

NextSchema == FilterSchema

SpecSchema == InitSchema /\ [][NextSchema]_vars

\* The type IRIs resolved from the contexts of a credential.
resolvedIRIs(credential) ==
    UNION { Range(typeFoundInContext(credential.Types[t],
                      documentLoader(stripFragment(credential.Context[i])))) :
                i \in DOMAIN credential.Context, t \in DOMAIN credential.Types }

\* A loader call of the run that failed.
loadFailed == \E i \in DOMAIN ret.loaded : documentLoader(ret.loaded[i].uri).err # ""

schemaAccepts(schemas, credential) ==
    /\ \E k \in DOMAIN schemas : schemas[k].URI \in resolvedIRIs(credential)
    /\ \A k \in DOMAIN schemas :
           schemas[k].Required => schemas[k].URI \in resolvedIRIs(credential)

C15_LoadFailure ==
    ret.op = "filterSchema" =>
        /\ loadFailed => (ret.creds = <<>> /\ ret.err = "" /\ ret.matched = <<>>)
        /\ \A i, j \in DOMAIN ret.loaded :
               ret.loaded[i].ctx = ret.loaded[j].ctx => i = j

\* A load that failed after a credential had been accepted, in a run where
\* two credentials name the same context.
C15_Witness ==
    /\ ret.op = "filterSchema"
    /\ loadFailed
    /\ Len(ret.input) >= 2
    /\ schemaAccepts(ret.schemas, ret.input[1])
    /\ \E i \in DOMAIN ret.input[2].Context : ret.input[2].Context[i] = ret.input[1].Context[1]
    /\ ret.creds = <<>>

----------------------------------------------------------------------------
(* A leaf requirement on its own.                                          *)

\* One requirement naming group A, with each cardinality set and not set.
LeafRequirementPool ==
    { <<>>,
      <<AllFrom("A")>>,
      <<SR(Pick, 1, 0, 0, "A", <<>>)>>,
      <<SR(Pick, 2, 0, 0, "A", <<>>)>>,
      <<SR(Pick, 0, 2, 0, "A", <<>>)>>,
      <<SR(Pick, 0, 0, 1, "A", <<>>)>>,
      <<SR(Pick, 0, 1, 2, "A", <<>>)>>,
      <<SR(Pick, 0, 0, 0, "A", <<>>)>> }

\* One to three descriptors of group A.
LeafDescriptorLists ==
    LET d(id) == {Descriptor(id, <<"A">>, c) : c \in ConstraintPool}
    IN  {<<x>> : x \in d("x")} \cup {<<x, y>> : x \in d("x"), y \in d("y")}
            \cup {<<x, y, z>> : x \in d("x"), y \in d("y"), z \in d("z")}

DefinitionsForLeaf ==
    { [ID |-> "pd", Format |-> NoFormat, Frame |-> NoFrame,
       SubmissionRequirements |-> srs, InputDescriptors |-> ds] :
          srs \in LeafRequirementPool, ds \in LeafDescriptorLists }

InitLeaf ==
    /\ pd \in DefinitionsForLeaf
    /\ creds \in CredentialLists
    /\ calls = 0
    /\ vp = NoVP
    /\ matched = NoMatch
    /\ evals = {}
    /\ ret = NoRet

\* The leaf makeRequirement builds for the definition: the root itself when
\* there is no submission requirement, its only child otherwise.
leafOf(pd_) ==
    LET root == makeRequirement(pd_.SubmissionRequirements, pd_.InputDescriptors).req
    IN  IF Len(root.InputDescriptors) # 0 THEN root ELSE root.Nested[1]

\* applyRequirement(leaf, creds): ret keeps the requirement, the number of
\* buckets the loop over the descriptors filled, and what the call returned.
ApplyLeaf ==
    /\ calls < MaxCalls
    /\ LET credentials == [i \in 1..Len(creds) |-> i]
           returned(l, r) ==
               /\ ret' = [op |-> "applyRequirement", req |-> leafOf(pd),
                          found |-> Cardinality(DOMAIN l.result),
                          err |-> r.err, format |-> r.format,
                          result |-> [d \in DOMAIN r.result |->
                                         [j \in DOMAIN r.result[d] |-> r.st.heap[r.result[d][j]].ID]]]
               /\ creds' = SubSeq(r.st.heap, 1, Len(creds))
       IN  returned(applyDescriptors(pd, leafOf(pd).InputDescriptors, credentials, 1,
                                     [heap |-> creds, uuid |-> 1], FormatLDPVP, EmptyMap),
                    applyRequirement(pd, leafOf(pd), credentials, <<>>,
                                     [heap |-> creds, uuid |-> 1]))
    /\ calls' = calls + 1
    /\ UNCHANGED <<pd, vp, matched, evals>>

NextLeaf == ApplyLeaf

SpecLeaf == InitLeaf /\ [][NextLeaf]_vars

\* Every cardinality of the requirement that is set is satisfied by n.
cardinalityHolds(req, n) ==
    /\ req.Count > 0 => n = req.Count
    /\ req.Min > 0 => n >= req.Min
    /\ req.Max > 0 => n <= req.Max

\* C16: a leaf succeeds, with one bucket for each descriptor that matched a
\* credential, iff the number of those descriptors satisfies every
\* cardinality that is set; otherwise it returns ErrNoCredentials and no
\* result map.
C16_LeafCardinality ==
    ret.op = "applyRequirement" =>
        IF cardinalityHolds(ret.req, ret.found)
        THEN ret.err = "" /\ Cardinality(DOMAIN ret.result) = ret.found
        ELSE ret.err = ErrNoCredentials /\ ret.result = EmptyMap

\* A leaf with min and max set that succeeded with two of three descriptors.
C16_Witness ==
    /\ ret.op = "applyRequirement"
    /\ ret.req.Min = 1 /\ ret.req.Max = 2
    /\ Len(ret.req.InputDescriptors) = 3
    /\ ret.found = 2
    /\ ret.err = ""

----------------------------------------------------------------------------
(* Branches over two groups, with descriptors that belong to both.         *)

BranchOver(rule, count, min, max) ==
    SR(rule, count, min, max, "", <<AllFrom("A"), AllFrom("B")>>)

BranchRequirementPool ==
    { <<BranchOver(All, 0, 0, 0)>>,
      <<BranchOver(Pick, 1, 0, 0)>>,
      <<BranchOver(Pick, 0, 1, 1)>>,
      <<BranchOver(Pick, 0, 2, 0)>>,
      <<BranchOver(Pick, 0, 0, 1)>>,
      <<AllFrom("A"), AllFrom("B")>> }

\* x in group A or in both groups, y in group B or in both.
BranchDescriptorLists ==
    LET xs == {Descriptor("x", g, c) : g \in {<<"A">>, <<"A", "B">>}, c \in ConstraintPool}
        ys == {Descriptor("y", g, c) : g \in {<<"B">>, <<"A", "B">>}, c \in ConstraintPool}
    IN  {<<x>> : x \in xs} \cup {<<x, y>> : x \in xs, y \in ys}

DefinitionsForBranch ==
    { [ID |-> "pd", Format |-> NoFormat, Frame |-> NoFrame,
       SubmissionRequirements |-> srs, InputDescriptors |-> ds] :
          srs \in BranchRequirementPool, ds \in BranchDescriptorLists }

InitBranch ==
    /\ pd \in DefinitionsForBranch
    /\ creds \in CredentialLists
    /\ calls = 0
    /\ vp = NoVP
    /\ matched = NoMatch
    /\ evals = {}
    /\ ret = NoRet

NextBranch == CreateVP

SpecBranch == InitBranch /\ [][NextBranch]_vars

\* The evaluations of the children of a branch that did not fail.
childrenOf(e) ==
    {c \in evals : c.err = "" /\ \E i \in DOMAIN e.req.Nested : c.path = Append(e.path, i)}

\* The credentials, by trimmed id, in the buckets of a result map.
idsIn(result) ==
    {trimTmpID(result[d][j]) : <<d, j>> \in
         UNION {{<<d, j>> : j \in DOMAIN result[d]} : d \in DOMAIN result}}

\* The descriptors a credential satisfies across the children of a branch.
satisfiedBy(e, k) ==
    {d \in UNION {DOMAIN c.result : c \in childrenOf(e)} :
        \E c \in childrenOf(e) :
            d \in DOMAIN c.result /\ \E j \in DOMAIN c.result[d] : trimTmpID(c.result[d][j]) = k}

branches == {e \in evals : Len(e.req.InputDescriptors) = 0 /\ e.err = ""}

\* C17: at a branch, a credential whose number of satisfied descriptors
\* across the children that did not fail violates the branch's count, min or
\* max is in no bucket of the merged result.
C17_BranchExclusion ==
    \A e \in branches :
        \A k \in UNION {idsIn(c.result) : c \in childrenOf(e)} :
            ~cardinalityHolds(e.req, Cardinality(satisfiedBy(e, k))) => k \notin idsIn(e.result)

\* C18: each bucket of a branch's merged map holds at most one credential for
\* each original credential id.
C18_OnePerOriginalID ==
    \A e \in branches :
        \A d \in DOMAIN e.result :
            \A i, j \in DOMAIN e.result[d] :
                trimTmpID(e.result[d][i]) = trimTmpID(e.result[d][j]) => i = j

----------------------------------------------------------------------------
(* The presentation format, with formats on the definition and on its      *)
(* descriptors.                                                            *)

FormatWith(member, type) ==
    [m \in DOMAIN NoFormat |->
        IF m = "IsNil" THEN FALSE ELSE IF m = member THEN type ELSE NoType]

LdpFormat == FormatWith("Ldp", LdpOf(<<"Ed25519Signature2018">>))
JwtVCFormat == FormatWith("JwtVC", JwtOf(<<"ES256">>))
JwtVPFormat == FormatWith("JwtVP", JwtOf(<<"EDDSA">>))

\* Descriptors with and without a format of their own, with no constraints
\* or with a filter on b.
FormatDescriptorLists ==
    LET cs == {NoConstraints, ConstraintsOf(Nil, <<Field(<<"b">>, FilterV2, Nil)>>)}
        fs == {NoFormat, LdpFormat, JwtVCFormat}
        xs == {[Descriptor("x", <<"A">>, c) EXCEPT !.Format = f] : c \in cs, f \in fs}
        ys == {[Descriptor("y", g, c) EXCEPT !.Format = f] :
                   g \in {<<"A">>, <<"B">>}, c \in cs, f \in fs}
    IN  {<<x>> : x \in xs} \cup {<<x, y>> : x \in xs, y \in ys}

\* No requirement, one leaf, two leaves, and a second leaf that succeeds
\* whether or not its descriptor matched.
FormatRequirementPool ==
    { <<>>,
      <<AllFrom("A")>>,
      <<AllFrom("A"), AllFrom("B")>>,
      <<AllFrom("A"), SR(Pick, 0, 0, 1, "B", <<>>)>>,
      <<SR(Pick, 0, 0, 2, "", <<AllFrom("A"), SR(Pick, 0, 0, 1, "B", <<>>)>>)>> }

DefinitionsForVPFormat ==
    { [ID |-> "pd", Format |-> f, Frame |-> NoFrame,
       SubmissionRequirements |-> srs, InputDescriptors |-> ds] :
          f \in {NoFormat, JwtVPFormat}, srs \in FormatRequirementPool,
          ds \in FormatDescriptorLists }

\* A JSON-LD credential and two JWT credentials; none of them is SD-JWT and
\* each marshals, so a call leaves them as they were.
CredentialKindsForVPFormat(id) ==
    { Credential(id, NoJWT, "", <<>>, <<"Ed25519Signature2018">>, claimAB, EmptyMap, TRUE),
      Credential(id, <<"ES256", "payload", "signature">>, "", <<>>, <<>>, claimA, EmptyMap, TRUE),
      Credential(id, <<"EdDSA", "payload", "signature">>, "", <<>>, <<>>, claimAB, EmptyMap, TRUE) }

CredentialListsForVPFormat ==
    UNION { {l \in [1..n -> UNION {CredentialKindsForVPFormat(CredentialIDs[i]) : i \in 1..n}] :
                \A i \in 1..n : l[i] \in CredentialKindsForVPFormat(CredentialIDs[i])} :
            n \in 0..MaxCreds }

InitVPFormat ==
    /\ pd \in DefinitionsForVPFormat
    /\ creds \in CredentialListsForVPFormat
    /\ calls = 0
    /\ vp = NoVP
    /\ matched = NoMatch
    /\ evals = {}
    /\ ret = NoRet

NextVPFormat == CreateVP

SpecVPFormat == InitVPFormat /\ [][NextVPFormat]_vars

\* A format that declares at least one member.
declaresFormat(f) ==
    /\ ~f.IsNil
    /\ \E m \in {"Jwt", "JwtVC", "JwtVP", "Ldp", "LdpVC", "LdpVP"} : ~f[m].IsNil

\* The tag the format filter returns for a descriptor, "" when neither the
\* descriptor nor the definition declares a format.
tagOf(descriptor) ==
    LET f == IF declaresFormat(descriptor.Format) THEN descriptor.Format ELSE pd.Format
    IN  IF declaresFormat(f) THEN filterFormat(f, [i \in 1..Len(creds) |-> i], creds).format
        ELSE ""

\* ldp_vp, overridden by the last descriptor with a non-empty tag.
leafFormat(req) ==
    LET tagged == {i \in DOMAIN req.InputDescriptors : tagOf(req.InputDescriptors[i]) # ""}
    IN  IF tagged = {} THEN FormatLDPVP
        ELSE tagOf(req.InputDescriptors[CHOOSE i \in tagged : \A j \in tagged : j <= i])

leaves == {e \in evals : Len(e.req.InputDescriptors) # 0 /\ e.err = ""}

childAt(e, i) == CHOOSE c \in evals : c.path = Append(e.path, i)

\* The children of a branch that did not fail and returned a bucket.
contributing(e) ==
    {i \in DOMAIN e.req.Nested :
        childAt(e, i).err = "" /\ DOMAIN childAt(e, i).result # {}}

LeafTakesLastTag == \A e \in leaves : e.format = leafFormat(e.req)

EntriesCarryRootFormat ==
    (vp.seq > 0 /\ vp.err = "") =>
        \A e \in evals : e.path = <<>> =>
            \A i \in DOMAIN vp.descriptor_map : vp.descriptor_map[i].Format = e.format

\* C19: a leaf returns ldp_vp overridden by the tag of the last descriptor
\* whose format filter returned a non-empty tag, a branch returns the format
\* of its last child, and every descriptor-map entry carries the format the
\* root returned.
C19_LastChild ==
    /\ LeafTakesLastTag
    /\ EntriesCarryRootFormat
    /\ \A e \in branches :
           Len(e.req.Nested) > 0 => e.format = childAt(e, Len(e.req.Nested)).format

\* C19 as the code has it: a branch returns the format of the last child that
\* did not fail and returned at least one bucket, and ldp_vp when there is
\* no such child.
C19_LastContributingChild ==
    /\ LeafTakesLastTag
    /\ EntriesCarryRootFormat
    /\ \A e \in branches :
           e.format = IF contributing(e) = {} THEN FormatLDPVP
                      ELSE childAt(e, CHOOSE i \in contributing(e) :
                                          \A j \in contributing(e) : j <= i).format

\* A branch whose last child succeeded without a bucket, with a format other
\* than the one of the child before it, and an entry written with the
\* format of that earlier child.
C19_Witness ==
    /\ vp.seq > 0 /\ vp.err = ""
    /\ Len(vp.descriptor_map) > 0
    /\ \E e \in branches :
           /\ vp.descriptor_map[1].Format = childAt(e, 1).format
           /\ Len(e.req.Nested) = 2
           /\ contributing(e) = {1}
           /\ childAt(e, 2).err = ""
           /\ childAt(e, 2).format # childAt(e, 1).format
           /\ childAt(e, 1).format # FormatLDPVP

\* A field is satisfied by the claims of a credential when one of its paths
\* names a value that the field's filter, if it has one, accepts.
fieldSatisfied(f, claims) ==
    \E k \in DOMAIN f.Path :
        /\ f.Path[k] \in DOMAIN claims
        /\ f.Filter.IsNil \/ claims[f.Path[k]] = f.Filter.Const

\* C20: under constraints with at least one field, every credential the
\* constraint filter returns satisfies every field (a credential with a
\* field that no path satisfies is rejected, and the filter still returns).
C20_EveryFieldSatisfied ==
    (ret.op = "filterConstraints" /\ Len(ret.constraints.Fields) >= 1) =>
        \A j \in DOMAIN returnedCreds :
            \A i \in DOMAIN ret.constraints.Fields :
                fieldSatisfied(ret.constraints.Fields[i],
                               shownClaims(ret.input[returnedCreds[j].origin]))

\* Two fields and two credentials: one credential is returned, the other
\* satisfies the first field, fails the second and is rejected.
C20_Witness ==
    /\ ret.op = "filterConstraints"
    /\ Len(ret.constraints.Fields) = 2
    /\ Len(ret.input) = 2
    /\ Len(returnedCreds) = 1
    /\ \E n \in DOMAIN ret.input :
           /\ n # returnedCreds[1].origin
           /\ fieldSatisfied(ret.constraints.Fields[1], shownClaims(ret.input[n]))
           /\ ~fieldSatisfied(ret.constraints.Fields[2], shownClaims(ret.input[n]))
           /\ ~isRequired(ret.constraints.SubjectIsIssuer)

----------------------------------------------------------------------------
(* The reshaping mode of the constraint filter.                            *)

\* Fields on claim a without and with predicate required, and a field with
\* predicate required whose first path names credentialSchema.
ReshapeFieldPool ==
    { Field(<<"a">>, NoFilter, Nil),
      Field(<<"a">>, NoFilter, Required),
      Field(<<credentialSchema, "a">>, NoFilter, Required) }

ReshapeConstraints ==
    { ConstraintsOf(l, fs) :
          l \in {Nil, Required},
          fs \in {<<f>> : f \in ReshapeFieldPool} \cup {<<f, g>> : f, g \in ReshapeFieldPool} }

DefinitionsForReshape ==
    { [ID |-> "pd", Format |-> NoFormat, Frame |-> NoFrame, SubmissionRequirements |-> <<>>,
       InputDescriptors |-> <<Descriptor("x", <<"A">>, c)>>] : c \in ReshapeConstraints }

claimSchema == [n \in {credentialSchema} |-> "schema-1"]
claimASchema == [n \in {"a", credentialSchema} |-> IF n = "a" THEN "v1" ELSE "schema-1"]

\* JSON-LD credentials with an Ed25519 or a BBS+ signature, with claim a, a
\* credentialSchema or both; SD-JWT credentials without and with a BBS+
\* proof; a JWT credential.
CredentialKindsForReshape(id) ==
    { Credential(id, NoJWT, "", <<>>, <<"Ed25519Signature2018">>, claimA, EmptyMap, TRUE),
      Credential(id, NoJWT, "", <<>>, <<"BbsBlsSignature2020">>, claimA, EmptyMap, TRUE),
      Credential(id, NoJWT, "", <<>>, <<"BbsBlsSignature2020">>, claimASchema, EmptyMap, TRUE),
      Credential(id, NoJWT, "", <<>>, <<"BbsBlsSignature2020">>, claimSchema, EmptyMap, TRUE),
      Credential(id, compactJWT, "sha-256", <<"a", "b">>, <<>>, EmptyMap, claimAB, TRUE),
      Credential(id, compactJWT, "sha-256", <<"a", "b">>, <<"BbsBlsSignature2020">>, EmptyMap,
                 claimAB, TRUE),
      Credential(id, compactJWT, "", <<>>, <<>>, claimA, EmptyMap, TRUE) }

CredentialListsForReshape ==
    UNION { {l \in [1..n -> UNION {CredentialKindsForReshape(CredentialIDs[i]) : i \in 1..n}] :
                \A i \in 1..n : l[i] \in CredentialKindsForReshape(CredentialIDs[i])} :
            n \in 0..MaxCreds }

InitReshape ==
    /\ pd \in DefinitionsForReshape
    /\ creds \in CredentialListsForReshape
    /\ calls = 0
    /\ vp = NoVP
    /\ matched = NoMatch
    /\ evals = {}
    /\ ret = NoRet

NextReshape == FilterConstraints

SpecReshape == InitReshape /\ [][NextReshape]_vars

\* The four facts about a returned credential, read from the constraints and
\* from the credential as it was passed in.
factsOf(j) ==
    LET in == ret.input[returnedCreds[j].origin]
    IN  [limit |-> isRequired(ret.constraints.LimitDisclosure),
         predicate |-> \E i \in DOMAIN ret.constraints.Fields :
                           isRequired(ret.constraints.Fields[i].Predicate),
         sdjwt |-> in.SDJWTHashAlg # "",
         bbs |-> \E i \in DOMAIN in.Proofs : in.Proofs[i] = "BbsBlsSignature2020"]

\* A field with predicate required has a matched path outside
\* credentialSchema: the value at that path is replaced by true.
substitutionForced(j) ==
    LET claims == shownClaims(ret.input[returnedCreds[j].origin])
    IN  \E i \in DOMAIN ret.constraints.Fields :
            /\ isRequired(ret.constraints.Fields[i].Predicate)
            /\ \E k \in DOMAIN ret.constraints.Fields[i].Path :
                   /\ ret.constraints.Fields[i].Path[k] \in DOMAIN claims
                   /\ ret.constraints.Fields[i].Path[k] # credentialSchema

\* What was done to a returned credential, read from the result: a new
\* object with a derived proof, a new object without one, or the caller's
\* object.
isNewObject(j) == ret.creds[j] > Len(ret.input)
hasSuffix(j) == IndexOf(returnedCreds[j].ID, tmpEnding) # 0
modeOf(j) ==
    IF ~isNewObject(j) THEN "same object"
    ELSE IF returnedCreds[j].Proofs = <<"BbsBlsSignatureProof2020">> THEN "bbs"
    ELSE "plain"

\* The disclosures of an SD-JWT credential that the matched paths name.
demanded(j) ==
    LET in == ret.input[returnedCreds[j].origin]
    IN  Concat([i \in DOMAIN ret.constraints.Fields |->
            Concat([k \in DOMAIN ret.constraints.Fields[i].Path |->
                SelectSeq(in.SDJWTDisclosures,
                          LAMBDA dc : /\ dc = ret.constraints.Fields[i].Path[k]
                                      /\ dc # credentialSchema
                                      /\ dc \in DOMAIN in.sd)])])

\* C21 as stated: the mode is a function of the four facts, so two
\* credentials returned by one call with the same four facts were reshaped
\* in the same mode.
C21_FunctionOfFourFacts ==
    ret.op = "filterConstraints" =>
        \A j, k \in DOMAIN ret.creds : factsOf(j) = factsOf(k) => modeOf(j) = modeOf(k)

\* C21 with the predicate fact split in two: BBS+ derivation iff
\* limit_disclosure is required, the credential has the BBS+ proof, it is not
\* SD-JWT and no substitution was forced; plain projection iff it is not
\* SD-JWT, limit_disclosure is required or a field has predicate required,
\* and BBS+ derivation does not apply; pruning iff limit_disclosure is
\* required and it is SD-JWT; otherwise the credential is returned as it
\* was.  The suffix is appended exactly in the first two cases.
C21_ReshapingMode ==
    ret.op = "filterConstraints" =>
        \A j \in DOMAIN ret.creds :
            LET f == factsOf(j)
                in == ret.input[returnedCreds[j].origin]
                bbs == f.limit /\ f.bbs /\ ~f.sdjwt /\ ~substitutionForced(j)
                plain == ~f.sdjwt /\ (f.limit \/ f.predicate) /\ ~bbs
                pruning == f.limit /\ f.sdjwt
            IN  /\ (modeOf(j) = "bbs") <=> bbs
                /\ (modeOf(j) = "plain") <=> plain
                /\ hasSuffix(j) <=> (bbs \/ plain)
                /\ pruning => returnedCreds[j] = [in EXCEPT !.SDJWTDisclosures = demanded(j)]
                /\ (~bbs /\ ~plain /\ ~pruning) => returnedCreds[j] = in

\* One call that derived a BBS+ proof for one credential and projected
\* another, both with a BBS+ signature, under limit_disclosure and a field
\* with predicate required.
C21_Witness ==
    /\ ret.op = "filterConstraints"
    /\ \E j, k \in DOMAIN ret.creds :
           /\ modeOf(j) = "bbs" /\ modeOf(k) = "plain"
           /\ factsOf(j).predicate /\ factsOf(k).bbs

----------------------------------------------------------------------------
(* The root of the requirement tree.                                       *)

\* The evaluation of the root by the last CreateVP, when it got that far.
roots == {e \in evals : e.path = <<>>}

\* C22: with N >= 1 top-level requirements the root is a branch with count N
\* that never fails with ErrNoCredentials, and a credential whose number of
\* matched descriptors over the top-level requirements that did not fail
\* differs from N is in no bucket of the root and not in the presentation.
C22_RootPerCredential ==
    (vp.seq > 0 /\ Len(pd.SubmissionRequirements) >= 1) =>
        /\ vp.err # ErrNoCredentials
        /\ \A e \in roots :
               /\ Len(e.req.InputDescriptors) = 0
               /\ e.req.Count = Len(pd.SubmissionRequirements)
               /\ e.err = "" /\ vp.err = ""
               /\ \A k \in UNION {idsIn(c.result) : c \in childrenOf(e)} :
                      Cardinality(satisfiedBy(e, k)) # Len(pd.SubmissionRequirements) =>
                          /\ k \notin idsIn(e.result)
                          /\ \A i \in DOMAIN vp.credentials : vp.credentials[i].ID # k

\* C23: constraints that are present but list no field make the constraint
\* filter return the empty list, whatever subject_is_issuer and
\* limit_disclosure say; with no constraints object it returns the
\* credentials it was passed, unchanged and in the same order.
C23_NoFieldsMatchesNothing ==
    ret.op = "filterConstraints" =>
        /\ (~ret.constraints.IsNil /\ Len(ret.constraints.Fields) = 0) => ret.creds = <<>>
        /\ ret.constraints.IsNil =>
               /\ ret.creds = [i \in 1..Len(ret.input) |-> i]
               /\ returnedCreds = ret.input

\* Constraints without fields and without limit_disclosure or
\* subject_is_issuer, applied to two credentials.
C23_Witness ==
    /\ ret.op = "filterConstraints"
    /\ ~ret.constraints.IsNil
    /\ Len(ret.constraints.Fields) = 0
    /\ ~isRequired(ret.constraints.LimitDisclosure)
    /\ ~isRequired(ret.constraints.SubjectIsIssuer)
    /\ Len(ret.input) = 2
    /\ ret.creds = <<>>

====
